---- MODULE Spec2Model ----
(***************************************************************************)
(* Model of the self-evolving agent backend:                               *)
(*   - main.py: the agent_states store and the perform_evolution           *)
(*     background task,                                                    *)
(*   - core/evolution_engine.py: EvolutionEngine (pipeline, metrics,       *)
(*     version increment, capability update),                              *)
(*   - core/tool_manager.py: Tool and ToolManager,                         *)
(*   - core/memory_manager.py: MemoryManager,                              *)
(*   - api/routes.py: the status the execute route answers with.           *)
(* Floats are fixed-point integers: a metric m is stored as m * Scale, a   *)
(* factor f as f * 100.  Strings that the code parses (the version) are    *)
(* sequences of one-character strings.  Timestamps are not modelled,       *)
(* except Tool.last_used, which is a logical clock value.                  *)
(***************************************************************************)
EXTENDS Integers, Sequences, FiniteSets, TLC

VARIABLES
    \* ---- main.py / evolution_engine.py
    agent_states,   \* main.agent_states: agent_id -> AgentState
    pc,             \* position of each perform_evolution background task
    agent,          \* perform_evolution's local `agent` (main.py:106)
    modifications,  \* evolve_agent's local `modifications`
    evolved_agent,  \* perform_evolution's local `evolved_agent`
    wrote,          \* history: the task has executed main.py:108
    started,        \* history: number of background tasks started
    completed,      \* history: number of tasks that ran to main.py:108
    exec_calls,     \* the main.execute_task calls suspended in the player
    execution_history, \* PlayerAgent.execution_history: agent_id -> results
    response,       \* the response of the execute_task call that ended last
    tasks_started,  \* history: number of execute_task calls made
    \* ---- pure-function harness (inputs of _increment_version and
    \*      _calculate_new_metrics)
    fin,            \* input of the function under check
    fout,           \* its result
    fargs,          \* the remaining arguments of the call
    \* ---- tool_manager.py
    tool_objs,      \* the Tool objects (index = identity)
    tools,          \* ToolManager.tools: name -> Tool object
    tool_categories,\* ToolManager.tool_categories: category -> list of names
    agent_tools,    \* ToolManager.agent_tools: agent_id -> list of names
    calls,          \* the execute_tool calls suspended in a tool's function
    result,         \* the execute_tool call that ended last, and its outcome
    grant_error,    \* what the last assign_/remove_tool call raised, or "none"
    clock,          \* datetime.now() as a logical clock
    tool_log,       \* history per Tool object: what its execute() calls did
    \* ---- memory_manager.py
    memory_store,   \* MemoryManager.memory_store: agent_id -> dict of entries,
                    \* a dict being the sequence of its entries in dict order
    knowledge_base, \* MemoryManager.knowledge_base: agent_id -> domain -> dict
    learning_patterns, \* MemoryManager.learning_patterns: agent_id ->
                    \* pattern_type -> list of pattern entries
    last_store,     \* history: the last store_memory call and the agent's
                    \* dict as _cleanup_memory found it
    last_search,    \* history: the last search_memories call and what it gave
    mem_log,        \* history per agent: the payloads stored, the retrievals
    mem_ops         \* history: number of store_memory and retrieve_memory calls

execVars == <<exec_calls, execution_history, response, tasks_started>>
evoVars == <<agent_states, pc, agent, modifications, evolved_agent, wrote,
             started, completed, execVars>>
funVars == <<fin, fout, fargs>>
toolVars == <<tool_objs, tools, tool_categories, agent_tools, calls, result,
              grant_error, clock, tool_log>>
memVars == <<memory_store, knowledge_base, learning_patterns, last_store,
             last_search, mem_log, mem_ops>>
vars == <<evoVars, funVars, toolVars, memVars>>

None == "None"

(***************************************************************************)
(* Bounds                                                                  *)
(***************************************************************************)
MaxEvolutions == 2      \* background tasks started in one behaviour
MaxTasks == 1           \* execute_task calls made in one behaviour
MaxVersionLen == 4      \* length of the version strings fed to _increment_version
MaxIncrements == 2      \* successive _increment_version applications
MaxCategoryLen == 2     \* length of a category's list of tool names
MaxExecutes == 3        \* Tool.execute calls made in one behaviour
MemoryLimit == 2        \* MemoryManager.memory_limit, scaled down from 10000
MaxStores == 4          \* store_memory calls made in one behaviour
MaxRetrieves == 1       \* retrieve_memory calls made in one behaviour
MaxSearches == 1        \* search_memories calls made in one behaviour
MaxUpdates == 2         \* update_knowledge and learn_pattern calls made
HashSpace == 16         \* number of memory ids, scaled down from 16^8

Tasks == {1, 2}
AgentIds == {"default"}

(***************************************************************************)
(* Strings as sequences of characters                                      *)
(***************************************************************************)
Digits == <<"0", "1", "2", "3", "4", "5", "6", "7", "8", "9">>
DigitVal(c) == (CHOOSE i \in 1..10 : Digits[i] = c) - 1

\* str.split(sep): the components between the separators, empty ones kept
RECURSIVE SplitAcc(_, _, _)
SplitAcc(s, sep, cur) ==
    IF s = <<>> THEN <<cur>>
    ELSE IF Head(s) = sep THEN <<cur>> \o SplitAcc(Tail(s), sep, <<>>)
    ELSE SplitAcc(Tail(s), sep, Append(cur, Head(s)))
Split(s, sep) == SplitAcc(s, sep, <<>>)

\* sep.join(parts)
RECURSIVE Join(_, _)
Join(parts, sep) ==
    IF Len(parts) = 0 THEN <<>>
    ELSE IF Len(parts) = 1 THEN parts[1]
    ELSE parts[1] \o <<sep>> \o Join(Tail(parts), sep)

AllDigits(s) == Len(s) > 0 /\ \A i \in 1..Len(s) : s[i] \in {Digits[d] : d \in 1..10}

\* int(s) accepts an optional sign followed by decimal digits; anything
\* else raises ValueError
IsIntLiteral(s) ==
    \/ AllDigits(s)
    \/ Len(s) > 1 /\ s[1] \in {"-", "+"} /\ AllDigits(Tail(s))

RECURSIVE DigitsValue(_, _)
DigitsValue(s, acc) ==
    IF s = <<>> THEN acc ELSE DigitsValue(Tail(s), acc * 10 + DigitVal(Head(s)))

ParseInt(s) ==
    IF s[1] = "-" THEN 0 - DigitsValue(Tail(s), 0)
    ELSE IF s[1] = "+" THEN DigitsValue(Tail(s), 0)
    ELSE DigitsValue(s, 0)

\* str(n) for an int
RECURSIVE NatStr(_)
NatStr(n) ==
    IF n < 10 THEN <<Digits[n + 1]>>
    ELSE Append(NatStr(n \div 10), Digits[(n % 10) + 1])
IntStr(n) == IF n < 0 THEN <<"-">> \o NatStr(0 - n) ELSE NatStr(n)

(***************************************************************************)
(* EvolutionEngine                                                         *)
(***************************************************************************)
DefaultVersion == <<"1", ".", "0", ".", "1">>

\* EvolutionEngine._increment_version
IncrementVersion_NoIncrement(current_version) ==
    LET parts == Split(current_version, ".")
        last  == parts[Len(parts)]
    IN  IF IsIntLiteral(last)
        THEN Join([parts EXCEPT ![Len(parts)] = IntStr(ParseInt(last))], ".")
        ELSE DefaultVersion

IncrementVersion(current_version) ==
    LET parts == Split(current_version, ".")
        last  == parts[Len(parts)]
    IN  IF IsIntLiteral(last)
        THEN Join([parts EXCEPT ![Len(parts)] = IntStr(ParseInt(last) + 1)], ".")
        ELSE DefaultVersion

Scale == 1000
Min(a, b) == IF a <= b THEN a ELSE b
Max(a, b) == IF a >= b THEN a ELSE b

\* random.uniform(1.05, 1.15) and random.uniform(0.95, 0.98), times 100
ImprovementFactors == {105, 110, 115}
DegradationFactors == {95, 98}

CalculateNewMetrics_OnlyAccuracy(old_metrics, success, factor) ==
    [m \in DOMAIN old_metrics |->
        IF m # "accuracy" THEN old_metrics[m]
        ELSE IF success THEN Min(Scale, (old_metrics[m] * factor) \div 100)
        ELSE Max(0, (old_metrics[m] * factor) \div 100)]

CalculateNewMetrics_FailureImproves(old_metrics, success, factor) ==
    [m \in DOMAIN old_metrics |->
        Min(Scale, (old_metrics[m] * (IF success THEN factor ELSE 200 - factor)) \div 100)]

\* EvolutionEngine._calculate_new_metrics; `factor` is the value drawn
\* from random.uniform in the branch taken
CalculateNewMetrics(old_metrics, success, factor) ==
    IF success
    THEN [m \in DOMAIN old_metrics |-> Min(Scale, (old_metrics[m] * factor) \div 100)]
    ELSE [m \in DOMAIN old_metrics |-> Max(0, (old_metrics[m] * factor) \div 100)]

InSeq(x, s) == \E i \in 1..Len(s) : s[i] = x

\* EvolutionEngine._update_capabilities
RECURSIVE AppendNew(_, _)
AppendNew(caps, new) ==
    IF new = <<>> THEN caps
    ELSE IF InSeq(Head(new), caps) THEN AppendNew(caps, Tail(new))
    ELSE AppendNew(Append(caps, Head(new)), Tail(new))

UpdateCapabilities_AppendAll(current_capabilities, mods) ==
    IF "new_capabilities" \in DOMAIN mods
    THEN current_capabilities \o mods.new_capabilities
    ELSE current_capabilities

UpdateCapabilities(current_capabilities, mods) ==
    IF "new_capabilities" \in DOMAIN mods
    THEN AppendNew(current_capabilities, mods.new_capabilities)
    ELSE current_capabilities

\* dict.get(key, default) on the modification set
ModGet(mods, key, default) == IF key \in DOMAIN mods THEN mods[key] ELSE default

\* EvolutionEngine._apply_evolution
ApplyEvolution_DropHistory(ag, mods, success, factor, trigger) ==
    LET performance_before == ag.performance_metrics
        performance_after  == CalculateNewMetrics(performance_before, success, factor)
        evolution_event == [trigger |-> trigger, changes |-> mods,
                            performance_before |-> performance_before,
                            performance_after |-> performance_after,
                            success |-> success]
    IN  [agent_id |-> ag.agent_id,
         version |-> IncrementVersion(ag.version),
         capabilities |-> UpdateCapabilities(ag.capabilities, mods),
         performance_metrics |-> performance_after,
         evolution_history |-> <<evolution_event>>,
         memory_size |-> ModGet(mods, "memory_size", ag.memory_size),
         tool_count |-> ModGet(mods, "tool_count", ag.tool_count)]

ApplyEvolution(ag, mods, success, factor, trigger) ==
    LET performance_before == ag.performance_metrics
        performance_after  == CalculateNewMetrics(performance_before, success, factor)
        evolution_event == [trigger |-> trigger, changes |-> mods,
                            performance_before |-> performance_before,
                            performance_after |-> performance_after,
                            success |-> success]
    IN  [agent_id |-> ag.agent_id,
         version |-> IncrementVersion(ag.version),
         capabilities |-> UpdateCapabilities(ag.capabilities, mods),
         performance_metrics |-> performance_after,
         evolution_history |-> Append(ag.evolution_history, evolution_event),
         memory_size |-> ModGet(mods, "memory_size", ag.memory_size),
         tool_count |-> ModGet(mods, "tool_count", ag.tool_count)]

\* main.startup_event: the default agent
DefaultAgent ==
    [agent_id |-> "default",
     version |-> <<"1", ".", "0", ".", "0">>,
     capabilities |-> <<"data_analysis", "report_generation", "task_automation">>,
     performance_metrics |-> [accuracy |-> 850, efficiency |-> 780, adaptability |-> 820],
     evolution_history |-> <<>>,
     memory_size |-> 1000,
     tool_count |-> 0]

\* modification sets a Generate stage can return
ModificationSets ==
    { [new_capabilities |-> <<>>],
      [new_capabilities |-> <<"predictive_modeling", "data_analysis",
                             "decision_support", "predictive_modeling">>],
      [memory_size |-> 1100, tool_count |-> 1] }

Triggers == {"scheduled"}

\* the execute_task calls in flight; the agents and task types asked for
ExecCalls == {1}
IdleExec == [pc |-> "idle", agent |-> None, task_type |-> ""]
NoResponse == [status |-> 0, result |-> None]
TaskAgents == {"default", "ghost"}
TaskTypes == {"report_generation", "custom"}

\* PlayerAgent.execution_history keeps the last results, scaled down from 100
ExecutionHistoryLimit == 2

EvoInit ==
    /\ agent_states = [a \in AgentIds |-> DefaultAgent]
    /\ pc = [t \in Tasks |-> "idle"]
    /\ agent = [t \in Tasks |-> None]
    /\ modifications = [t \in Tasks |-> None]
    /\ evolved_agent = [t \in Tasks |-> None]
    /\ wrote = [t \in Tasks |-> FALSE]
    /\ started = 0
    /\ completed = 0
    /\ exec_calls = [c \in ExecCalls |-> IdleExec]
    /\ execution_history = [a \in {} |-> <<>>]
    /\ response = NoResponse
    /\ tasks_started = 0

FunIdle == fin = None /\ fout = None /\ fargs = None

\* main.evolve_agent: the endpoint queues perform_evolution for a known agent
StartEvolution(t) ==
    /\ pc[t] \in {"idle", "done", "failed"}
    /\ started < MaxEvolutions
    /\ pc' = [pc EXCEPT ![t] = "queued"]
    /\ agent' = [agent EXCEPT ![t] = None]
    /\ modifications' = [modifications EXCEPT ![t] = None]
    /\ evolved_agent' = [evolved_agent EXCEPT ![t] = None]
    /\ wrote' = [wrote EXCEPT ![t] = FALSE]
    /\ started' = started + 1
    /\ UNCHANGED <<agent_states, completed, execVars, funVars, toolVars,
                   memVars>>

\* perform_evolution reads the store (main.py:106) and enters evolve_agent,
\* which suspends in the Analyze stage
ReadState(t) ==
    /\ pc[t] = "queued"
    /\ agent' = [agent EXCEPT ![t] = agent_states["default"]]
    /\ pc' = [pc EXCEPT ![t] = "analyze"]
    /\ UNCHANGED <<agent_states, modifications, evolved_agent, wrote, started,
                   completed, execVars, funVars, toolVars,
                   memVars>>

\* analyzer.analyze_agent returns; the Research stage is entered
AnalyzeReturns(t) ==
    /\ pc[t] = "analyze"
    /\ pc' = [pc EXCEPT ![t] = "research"]
    /\ UNCHANGED <<agent_states, agent, modifications, evolved_agent, wrote,
                   started, completed, execVars, funVars, toolVars,
                   memVars>>

\* researcher.research_improvements returns; the Generate stage is entered
ResearchReturns(t) ==
    /\ pc[t] = "research"
    /\ pc' = [pc EXCEPT ![t] = "generate"]
    /\ UNCHANGED <<agent_states, agent, modifications, evolved_agent, wrote,
                   started, completed, execVars, funVars, toolVars,
                   memVars>>

\* coder.generate_modifications returns a modification set; the Test stage
\* is entered
GenerateReturns(t) ==
    /\ pc[t] = "generate"
    /\ \E mods \in ModificationSets :
          modifications' = [modifications EXCEPT ![t] = mods]
    /\ pc' = [pc EXCEPT ![t] = "test"]
    /\ UNCHANGED <<agent_states, agent, evolved_agent, wrote, started,
                   completed, execVars, funVars, toolVars,
                   memVars>>

\* player.test_modifications returns; _apply_evolution builds the new state
\* and perform_evolution writes it back (main.py:108) without suspending
TestReturns(t) ==
    /\ pc[t] = "test"
    /\ \E success \in BOOLEAN :
       \E factor \in (IF success THEN ImprovementFactors ELSE DegradationFactors) :
       \E trigger \in Triggers :
          LET new == ApplyEvolution(agent[t], modifications[t], success, factor, trigger)
          IN  /\ evolved_agent' = [evolved_agent EXCEPT ![t] = new]
              /\ agent_states' = [agent_states EXCEPT ![agent[t].agent_id] = new]
    /\ wrote' = [wrote EXCEPT ![t] = TRUE]
    /\ completed' = completed + 1
    /\ pc' = [pc EXCEPT ![t] = "done"]
    /\ UNCHANGED <<agent, modifications, started, execVars, funVars, toolVars,
                   memVars>>

\* a stage raises: the exception leaves evolve_agent and is caught and
\* logged by perform_evolution (main.py:110-111)
StageRaises_WritesPartial(t) ==
    /\ pc[t] \in {"analyze", "research", "generate", "test"}
    /\ pc' = [pc EXCEPT ![t] = "failed"]
    /\ agent_states' = [agent_states EXCEPT ![agent[t].agent_id] =
                          [agent[t] EXCEPT !.version = IncrementVersion(agent[t].version)]]
    /\ wrote' = [wrote EXCEPT ![t] = TRUE]
    /\ UNCHANGED <<agent, modifications, evolved_agent, started, completed, execVars, funVars, toolVars,
                   memVars>>

StageRaises(t) ==
    /\ pc[t] \in {"analyze", "research", "generate", "test"}
    /\ pc' = [pc EXCEPT ![t] = "failed"]
    /\ UNCHANGED <<agent_states, agent, modifications, evolved_agent, wrote,
                   started, completed, execVars, funVars, toolVars,
                   memVars>>

\* main.execute_task up to the first suspension: the agent is looked up
\* (404 when unknown) and handed to PlayerAgent.execute_task, which suspends
\* in the _execute_* function of the task type
ExecuteTask(c, agent_id, task_type) ==
    /\ exec_calls[c].pc = "idle"
    /\ \A d \in ExecCalls : d < c => exec_calls[d].pc # "idle"
    /\ tasks_started < MaxTasks
    /\ tasks_started' = tasks_started + 1
    /\ IF agent_id \notin DOMAIN agent_states
       THEN /\ response' = [status |-> 404, result |-> None]
            /\ UNCHANGED exec_calls
       ELSE /\ exec_calls' = [exec_calls EXCEPT ![c] =
                   [pc |-> "running", agent |-> agent_states[agent_id],
                    task_type |-> task_type]]
            /\ UNCHANGED response
    /\ UNCHANGED <<agent_states, pc, agent, modifications, evolved_agent, wrote,
                   started, completed, execution_history, funVars, toolVars, memVars>>

\* PlayerAgent._record_execution_history
RecordExecutionHistory(history, agent_id, execution_result) ==
    LET list == IF agent_id \in DOMAIN history THEN history[agent_id] ELSE <<>>
        kept == IF Len(list) >= ExecutionHistoryLimit
                THEN SubSeq(list, Len(list) - (ExecutionHistoryLimit - 1) + 1, Len(list))
                ELSE list
    IN  [a \in DOMAIN history \cup {agent_id} |->
            IF a = agent_id THEN Append(kept, execution_result) ELSE history[a]]

\* the result PlayerAgent.execute_task builds for the agent object it was
\* given; a report reads agent.version after the suspension
ExecutionResult(ag, task_type) ==
    [agent_id |-> ag.agent_id, task_type |-> task_type, success |-> TRUE,
     agent_version |-> IF task_type = "report_generation" THEN ag.version ELSE None]

\* the _execute_* function returns: the result is recorded and returned
TaskReturns_WritesBack(c) ==
    /\ exec_calls[c].pc = "running"
    /\ LET ag == exec_calls[c].agent
           execution_result == ExecutionResult(ag, exec_calls[c].task_type)
       IN  /\ execution_history' =
                  RecordExecutionHistory(execution_history, ag.agent_id, execution_result)
           /\ response' = [status |-> 200, result |-> execution_result]
           /\ agent_states' = [agent_states EXCEPT ![ag.agent_id] = ag]
    /\ exec_calls' = [exec_calls EXCEPT ![c] = IdleExec]
    /\ UNCHANGED <<pc, agent, modifications, evolved_agent, wrote,
                   started, completed, tasks_started, funVars, toolVars, memVars>>

TaskReturns(c) ==
    /\ exec_calls[c].pc = "running"
    /\ LET ag == exec_calls[c].agent
           execution_result == ExecutionResult(ag, exec_calls[c].task_type)
       IN  /\ execution_history' =
                  RecordExecutionHistory(execution_history, ag.agent_id, execution_result)
           /\ response' = [status |-> 200, result |-> execution_result]
    /\ exec_calls' = [exec_calls EXCEPT ![c] = IdleExec]
    /\ UNCHANGED <<agent_states, pc, agent, modifications, evolved_agent, wrote,
                   started, completed, tasks_started, funVars, toolVars, memVars>>

(***************************************************************************)
(* Tool and ToolManager                                                    *)
(***************************************************************************)
EmptyMap == [x \in {} |-> 0]

\* Python values: ty is the type, s the text of a str, n the value of an
\* int or bool and the length of a list
StrV(x)  == [ty |-> "str", s |-> x, n |-> 0]
IntV(x)  == [ty |-> "int", s |-> "", n |-> x]
BoolV(x) == [ty |-> "bool", s |-> "", n |-> IF x THEN 1 ELSE 0]
FloatV(x) == [ty |-> "float", s |-> "", n |-> x]
ListV(x) == [ty |-> "list", s |-> "", n |-> x]
NoneV    == [ty |-> "NoneType", s |-> "", n |-> 0]

\* isinstance(value, expected_type); bool is a subclass of int
IsInstance(value, expected_type) ==
    \/ value.ty = expected_type
    \/ value.ty = "bool" /\ expected_type = "int"

\* the strings int() parses, with their values
NumericStrings == [x \in {"2", "5"} |-> IF x = "2" THEN 2 ELSE 5]

\* Tool._validate_parameters, lines 61-70: the ad hoc casts int(value),
\* float(value) and bool(value); a value of another declared type is
\* neither cast nor rejected
Coerce(expected_type, value) ==
    IF IsInstance(value, expected_type) THEN [error |-> "none", value |-> value]
    ELSE IF expected_type = "int" THEN
        IF value.ty = "str" /\ value.s \in DOMAIN NumericStrings
        THEN [error |-> "none", value |-> IntV(NumericStrings[value.s])]
        ELSE IF value.ty = "float"
        THEN [error |-> "none", value |-> IntV(value.n)]
        ELSE [error |-> "ValueError", value |-> value]
    ELSE IF expected_type = "float" THEN
        IF value.ty = "str" /\ value.s \in DOMAIN NumericStrings
        THEN [error |-> "none", value |-> FloatV(NumericStrings[value.s])]
        ELSE IF value.ty \in {"int", "bool"}
        THEN [error |-> "none", value |-> FloatV(value.n)]
        ELSE [error |-> "ValueError", value |-> value]
    ELSE IF expected_type = "bool" THEN
        [error |-> "none",
         value |-> BoolV(IF value.ty = "str" THEN value.s # "" ELSE value.n # 0)]
    ELSE [error |-> "none", value |-> value]

\* value < bound, value > bound: defined between numbers only
Ordered(value) == value.ty \in {"int", "bool", "float"}

\* Tool._validate_parameters, lines 57-82: one supplied parameter
CheckValue(param_info, supplied) ==
    LET expected_type == IF "type" \in DOMAIN param_info THEN param_info.type ELSE "str"
        c == Coerce(expected_type, supplied)
        value == c.value
    IN  IF c.error # "none" THEN c
        ELSE IF "min" \in DOMAIN param_info /\ ~Ordered(value)
             THEN [error |-> "TypeError", value |-> value]
        ELSE IF "min" \in DOMAIN param_info /\ value.n < param_info.min
             THEN [error |-> "ValueError", value |-> value]
        ELSE IF "max" \in DOMAIN param_info /\ ~Ordered(value)
             THEN [error |-> "TypeError", value |-> value]
        ELSE IF "max" \in DOMAIN param_info /\ value.n > param_info.max
             THEN [error |-> "ValueError", value |-> value]
        ELSE IF "enum" \in DOMAIN param_info /\ value \notin param_info.enum
             THEN [error |-> "ValueError", value |-> value]
        ELSE [error |-> "none", value |-> value]

\* Tool._validate_parameters: the declared parameters in declaration order
RECURSIVE ValidateFrom(_, _, _, _)
ValidateFrom(parameters, kwargs, i, validated) ==
    IF i > Len(parameters) THEN [error |-> "none", params |-> validated]
    ELSE LET param_name == parameters[i].name
             param_info == parameters[i].info
         IN  IF param_name \in DOMAIN kwargs THEN
                 LET r == CheckValue(param_info, kwargs[param_name])
                 IN  IF r.error # "none" THEN [error |-> r.error, params |-> EmptyMap]
                     ELSE ValidateFrom(parameters, kwargs, i + 1,
                                       validated @@ (param_name :> r.value))
             ELSE IF "required" \in DOMAIN param_info /\ param_info.required
                  THEN [error |-> "ValueError", params |-> EmptyMap]
             ELSE ValidateFrom(parameters, kwargs, i + 1,
                      validated @@ (param_name :>
                          (IF "default" \in DOMAIN param_info
                           THEN param_info.default ELSE NoneV)))

ValidateParameters(parameters, kwargs) == ValidateFrom(parameters, kwargs, 1, EmptyMap)

\* success_rate as a fraction <<numerator, denominator>> in lowest terms
RECURSIVE Gcd(_, _)
Gcd(a, b) == IF b = 0 THEN a ELSE Gcd(b, a % b)
Frac(n, d) == IF n = 0 THEN <<0, 1>> ELSE <<n \div Gcd(n, d), d \div Gcd(n, d)>>

NewSuccessRate_InitialBias(success_rate, usage_count, outcome) ==
    Frac(success_rate[1] * usage_count + outcome * success_rate[2],
         success_rate[2] * (usage_count + 1))

\* Tool.execute, lines 41 and 47:
\* (success_rate * (usage_count - 1) + outcome) / usage_count
NewSuccessRate(success_rate, usage_count, outcome) ==
    Frac(success_rate[1] * (usage_count - 1) + outcome * success_rate[2],
         success_rate[2] * usage_count)

\* the tool definitions given to Tool(...): analyze_data as registered by
\* _register_default_tools; set_level with a bounded int parameter and a
\* bounded parameter that declares no type; a second Tool named analyze_data
\* in another category
ToolDefs ==
    << [name |-> "analyze_data", category |-> "data_analysis",
       parameters |-> <<
          [name |-> "data", info |-> [type |-> "list", required |-> TRUE]],
          [name |-> "analysis_type",
           info |-> [type |-> "str", required |-> TRUE,
                     enum |-> {StrV("summary"), StrV("trends"), StrV("anomalies")}]],
          [name |-> "output_format",
           info |-> [type |-> "str", default |-> StrV("json"),
                     enum |-> {StrV("json"), StrV("csv"), StrV("table")}]] >>],
       [name |-> "set_level", category |-> "task_automation",
       parameters |-> <<
          [name |-> "level",
           info |-> [type |-> "int", required |-> TRUE, min |-> 1, max |-> 3]],
          [name |-> "rate", info |-> [min |-> 1, max |-> 3]] >>],
       [name |-> "analyze_data", category |-> "report_generation",
       parameters |-> <<
          [name |-> "data", info |-> [type |-> "list", required |-> TRUE]] >>] >>

ToolNames == {ToolDefs[i].name : i \in DOMAIN ToolDefs}
ToolAgents == {"default", "agentX"}

\* the keyword arguments given to execute_tool
KwargsChoices ==
    { ("data" :> ListV(2)) @@ ("analysis_type" :> StrV("summary")),
      ("data" :> ListV(2)) @@ ("analysis_type" :> StrV("bogus")),
      ("analysis_type" :> StrV("trends")),
      ("level" :> IntV(2)),
      ("level" :> StrV("2")),
      ("level" :> IntV(5)) }

\* Tool.__init__
NewTool(def) ==
    [name |-> def.name, category |-> def.category, parameters |-> def.parameters,
     usage_count |-> 0, success_rate |-> <<1, 1>>, last_used |-> 0]

NewLog == [passed |-> 0, rejected |-> 0, returned |-> 0, raised |-> 0,
           running |-> 0, overlapped |-> FALSE]

Calls == {1, 2}
IdleCall == [pc |-> "idle", tool |-> 0, agent_id |-> "", tool_name |-> ""]
NoResult == [agent_id |-> "", tool_name |-> "", outcome |-> "none"]

ToolInit ==
    /\ tool_objs = [i \in DOMAIN ToolDefs |-> NewTool(ToolDefs[i])]
    /\ tools = EmptyMap
    /\ tool_categories = EmptyMap
    /\ agent_tools = EmptyMap
    /\ calls = [c \in Calls |-> IdleCall]
    /\ result = NoResult
    /\ grant_error = "none"
    /\ clock = 0
    /\ tool_log = [i \in DOMAIN ToolDefs |-> NewLog]

\* list.remove(x): the first occurrence
RECURSIVE RemoveFirst(_, _)
RemoveFirst(list, x) ==
    IF list = <<>> THEN <<>>
    ELSE IF Head(list) = x THEN Tail(list)
    ELSE <<Head(list)>> \o RemoveFirst(Tail(list), x)

RegisterTool_AlwaysAppends(obj, agent_id) ==
    LET tool == tool_objs[obj]
        list == IF tool.category \in DOMAIN tool_categories
                THEN tool_categories[tool.category] ELSE <<>>
    IN  /\ Len(list) < MaxCategoryLen
        /\ tools' = [n \in DOMAIN tools \cup {tool.name} |->
                        IF n = tool.name THEN obj ELSE tools[n]]
        /\ tool_categories' =
              [c \in DOMAIN tool_categories \cup {tool.category} |->
                  IF c = tool.category THEN Append(list, tool.name)
                  ELSE tool_categories[c]]
        /\ agent_tools' =
              IF agent_id = None THEN agent_tools
              ELSE [a \in DOMAIN agent_tools \cup {agent_id} |->
                       LET cur == IF a \in DOMAIN agent_tools THEN agent_tools[a] ELSE <<>>
                       IN  IF a = agent_id THEN Append(cur, tool.name) ELSE cur]
        /\ UNCHANGED <<tool_objs, tool_log, calls, result, grant_error, clock,
                       evoVars, funVars, memVars>>

\* ToolManager.register_tool(tool, agent_id) for the Tool object obj;
\* agent_id is None or the agent to grant the tool to
RegisterTool(obj, agent_id) ==
    LET tool == tool_objs[obj]
        list == IF tool.category \in DOMAIN tool_categories
                THEN tool_categories[tool.category] ELSE <<>>
    IN  /\ Len(list) < MaxCategoryLen
        /\ tools' = [n \in DOMAIN tools \cup {tool.name} |->
                        IF n = tool.name THEN obj ELSE tools[n]]
        /\ tool_categories' =
              [c \in DOMAIN tool_categories \cup {tool.category} |->
                  IF c = tool.category THEN Append(list, tool.name)
                  ELSE tool_categories[c]]
        /\ agent_tools' =
              IF agent_id = None THEN agent_tools
              ELSE [a \in DOMAIN agent_tools \cup {agent_id} |->
                       LET cur == IF a \in DOMAIN agent_tools THEN agent_tools[a] ELSE <<>>
                       IN  IF a = agent_id /\ ~InSeq(tool.name, cur)
                           THEN Append(cur, tool.name) ELSE cur]
        /\ UNCHANGED <<tool_objs, tool_log, calls, result, grant_error, clock,
                   evoVars, funVars, memVars>>

UnregisterTool_KeepsGrants(tool_name) ==
    /\ IF tool_name \in DOMAIN tools
       THEN LET tool == tool_objs[tools[tool_name]]
            IN  /\ tool_categories' =
                      [c \in DOMAIN tool_categories |->
                          IF c = tool.category
                          THEN RemoveFirst(tool_categories[c], tool_name)
                          ELSE tool_categories[c]]
                /\ tools' = [n \in DOMAIN tools \ {tool_name} |-> tools[n]]
                /\ UNCHANGED agent_tools
       ELSE UNCHANGED <<tools, tool_categories, agent_tools>>
    /\ UNCHANGED <<tool_objs, tool_log, calls, result, grant_error, clock,
                   evoVars, funVars, memVars>>

\* ToolManager.unregister_tool
UnregisterTool(tool_name) ==
    /\ IF tool_name \in DOMAIN tools
       THEN LET tool == tool_objs[tools[tool_name]]
            IN  /\ tool_categories' =
                      [c \in DOMAIN tool_categories |->
                          IF c = tool.category
                          THEN RemoveFirst(tool_categories[c], tool_name)
                          ELSE tool_categories[c]]
                /\ agent_tools' = [a \in DOMAIN agent_tools |->
                                      RemoveFirst(agent_tools[a], tool_name)]
                /\ tools' = [n \in DOMAIN tools \ {tool_name} |-> tools[n]]
       ELSE UNCHANGED <<tools, tool_categories, agent_tools>>
    /\ UNCHANGED <<tool_objs, tool_log, calls, result, grant_error, clock,
                   evoVars, funVars, memVars>>

AssignToolToAgent_Unchecked(tool_name, agent_id) ==
    /\ agent_tools' =
          [a \in DOMAIN agent_tools \cup {agent_id} |->
               LET cur == IF a \in DOMAIN agent_tools THEN agent_tools[a] ELSE <<>>
               IN  IF a = agent_id /\ ~InSeq(tool_name, cur)
                   THEN Append(cur, tool_name) ELSE cur]
    /\ grant_error' = "none"
    /\ UNCHANGED <<tool_objs, tool_log, tools, tool_categories, calls, result,
                   clock, evoVars, funVars, memVars>>

\* ToolManager.assign_tool_to_agent: an unregistered name raises ValueError
\* before anything is written
AssignToolToAgent(tool_name, agent_id) ==
    /\ IF tool_name \notin DOMAIN tools
       THEN /\ grant_error' = "ValueError"
            /\ UNCHANGED agent_tools
       ELSE /\ grant_error' = "none"
            /\ agent_tools' =
                  [a \in DOMAIN agent_tools \cup {agent_id} |->
                       LET cur == IF a \in DOMAIN agent_tools THEN agent_tools[a] ELSE <<>>
                       IN  IF a = agent_id /\ ~InSeq(tool_name, cur)
                           THEN Append(cur, tool_name) ELSE cur]
    /\ UNCHANGED <<tool_objs, tool_log, tools, tool_categories, calls, result,
                   clock, evoVars, funVars, memVars>>

\* ToolManager.remove_tool_from_agent: returns whether or not it removed
RemoveToolFromAgent(tool_name, agent_id) ==
    /\ IF agent_id \in DOMAIN agent_tools /\ InSeq(tool_name, agent_tools[agent_id])
       THEN agent_tools' = [agent_tools EXCEPT ![agent_id] = RemoveFirst(@, tool_name)]
       ELSE UNCHANGED agent_tools
    /\ grant_error' = "none"
    /\ UNCHANGED <<tool_objs, tool_log, tools, tool_categories, calls, result,
                   clock, evoVars, funVars, memVars>>

HasAccess_AnyAgent(agent_id, tool_name) ==
    \E a \in DOMAIN agent_tools : InSeq(tool_name, agent_tools[a])

\* ToolManager.execute_tool line 187
HasAccess(agent_id, tool_name) ==
    agent_id \in DOMAIN agent_tools /\ InSeq(tool_name, agent_tools[agent_id])

\* the call ends with an outcome: a result or the exception raised
Ended(agent_id, tool_name, outcome) ==
    [agent_id |-> agent_id, tool_name |-> tool_name, outcome |-> outcome]

\* ToolManager.execute_tool up to the first suspension: the permission
\* check, the lookup, then Tool.execute lines 28-32; with valid parameters
\* the call suspends in the tool's function (line 36)
ExecuteTool(c, tool_name, agent_id, kwargs) ==
    /\ calls[c].pc = "idle"
    /\ \A d \in Calls : d < c => calls[d].pc # "idle"   \* the first free slot
    /\ IF ~HasAccess(agent_id, tool_name) THEN
           /\ result' = Ended(agent_id, tool_name, "PermissionError")
           /\ UNCHANGED <<tool_objs, tool_log, calls, clock>>
       ELSE IF tool_name \notin DOMAIN tools THEN
           \* line 192: raise ValueError("Tool ... not found")
           /\ result' = Ended(agent_id, tool_name, "ValueError")
           /\ UNCHANGED <<tool_objs, tool_log, calls, clock>>
       ELSE
           /\ clock < MaxExecutes
           /\ clock' = clock + 1
           /\ LET obj == tools[tool_name]
                  tool == tool_objs[obj]
                  usage_count == tool.usage_count + 1
                  v == ValidateParameters(tool.parameters, kwargs)
              IN  IF v.error # "none" THEN
                      /\ tool_objs' = [tool_objs EXCEPT ![obj] =
                             [tool EXCEPT !.usage_count = usage_count,
                                          !.last_used = clock + 1,
                                          !.success_rate =
                                              NewSuccessRate(tool.success_rate, usage_count, 0)]]
                      /\ tool_log' = [tool_log EXCEPT ![obj].rejected = @ + 1]
                      /\ result' = Ended(agent_id, tool_name, v.error)
                      /\ UNCHANGED calls
                  ELSE
                      /\ tool_objs' = [tool_objs EXCEPT ![obj] =
                             [tool EXCEPT !.usage_count = usage_count,
                                          !.last_used = clock + 1]]
                      /\ tool_log' = [tool_log EXCEPT
                             ![obj].passed = @ + 1,
                             ![obj].running = @ + 1,
                             ![obj].overlapped = @ \/ tool_log[obj].running > 0]
                      /\ calls' = [calls EXCEPT ![c] =
                             [pc |-> "running", tool |-> obj, agent_id |-> agent_id,
                              tool_name |-> tool_name]]
                      /\ UNCHANGED result
    /\ UNCHANGED <<tools, tool_categories, agent_tools, grant_error,
                   evoVars, funVars, memVars>>

\* the tool's function returns: Tool.execute lines 41-43
FunctionReturns(c) ==
    /\ calls[c].pc = "running"
    /\ LET obj == calls[c].tool
           tool == tool_objs[obj]
       IN  /\ tool_objs' = [tool_objs EXCEPT ![obj].success_rate =
                               NewSuccessRate(tool.success_rate, tool.usage_count, 1)]
           /\ tool_log' = [tool_log EXCEPT ![obj].returned = @ + 1,
                                           ![obj].running = @ - 1]
    /\ result' = Ended(calls[c].agent_id, calls[c].tool_name, "ok")
    /\ calls' = [calls EXCEPT ![c] = IdleCall]
    /\ UNCHANGED <<tools, tool_categories, agent_tools, grant_error, clock,
                   evoVars, funVars, memVars>>

\* the tool's function raises: Tool.execute lines 45-49
FunctionRaises(c) ==
    /\ calls[c].pc = "running"
    /\ LET obj == calls[c].tool
           tool == tool_objs[obj]
       IN  /\ tool_objs' = [tool_objs EXCEPT ![obj].success_rate =
                               NewSuccessRate(tool.success_rate, tool.usage_count, 0)]
           /\ tool_log' = [tool_log EXCEPT ![obj].raised = @ + 1,
                                           ![obj].running = @ - 1]
    /\ result' = Ended(calls[c].agent_id, calls[c].tool_name, "FunctionError")
    /\ calls' = [calls EXCEPT ![c] = IdleCall]
    /\ UNCHANGED <<tools, tool_categories, agent_tools, grant_error, clock,
                   evoVars, funVars, memVars>>

\* routes.execute_tool: the response status for the outcome of
\* tool_manager.execute_tool
HttpStatus(outcome) ==
    IF outcome = "ok" THEN 200
    ELSE IF outcome = "PermissionError" THEN 403
    ELSE IF outcome = "ValueError" THEN 400
    ELSE 500

\* the agents that tools are granted to
GrantAgents == ToolAgents

\* the Tool objects registered while calls are executed: analyze_data; set_level
\* stays an unregistered name that callers may still ask for
ExecTools == {1}

ToolNext ==
    \/ \E obj \in ExecTools : \E a \in GrantAgents \cup {None} : RegisterTool(obj, a)
    \/ \E n \in ToolNames : \E a \in GrantAgents : AssignToolToAgent(n, a)
    \/ \E n \in ToolNames : \E a \in GrantAgents : RemoveToolFromAgent(n, a)
    \/ \E c \in Calls : \E n \in ToolNames : \E a \in ToolAgents :
       \E kwargs \in KwargsChoices : ExecuteTool(c, n, a, kwargs)
    \/ \E c \in Calls : FunctionReturns(c)
    \/ \E c \in Calls : FunctionRaises(c)

\* ToolManager.get_tools_by_category: the Tool objects returned, in order
RECURSIVE RegisteredOf(_)
RegisteredOf(names) ==
    IF names = <<>> THEN <<>>
    ELSE IF Head(names) \in DOMAIN tools
         THEN <<tools[Head(names)]>> \o RegisteredOf(Tail(names))
         ELSE RegisteredOf(Tail(names))

GetToolsByCategory(category) ==
    IF category \notin DOMAIN tool_categories THEN <<>>
    ELSE RegisteredOf(tool_categories[category])

\* ToolManager.get_agent_tool_stats: total_tools, and the names that
\* tool_usage has an entry for
GetAgentToolStats(agent_id) ==
    IF agent_id \notin DOMAIN agent_tools
    THEN [total_tools |-> 0, tool_usage |-> {}]
    ELSE [total_tools |-> Len(agent_tools[agent_id]),
          tool_usage |-> {agent_tools[agent_id][i] : i \in 1..Len(agent_tools[agent_id])}
                            \cap DOMAIN tools]

\* the registry operations alone: any Tool object may be registered, also
\* one whose name is already registered
RegistryNext ==
    \/ \E obj \in DOMAIN tool_objs : \E a \in GrantAgents \cup {None} : RegisterTool(obj, a)
    \/ \E n \in ToolNames : UnregisterTool(n)
    \/ \E n \in ToolNames : \E a \in GrantAgents : AssignToolToAgent(n, a)
    \/ \E n \in ToolNames : \E a \in GrantAgents : RemoveToolFromAgent(n, a)

(***************************************************************************)
(* MemoryManager                                                           *)
(***************************************************************************)
\* payload values: a str, or an object that json.dumps serializes through
\* default=str; s is the text of str(value)
TextV(ty, x) == [ty |-> ty, s |-> x]

\* the payloads given to store_memory: a "data" value and an optional
\* "importance" (in tenths)
Payloads ==
    { [data |-> TextV("str", "5"), importance |-> 8],
      [data |-> TextV("Decimal", "5"), importance |-> 8],
      [data |-> TextV("Fraction", "5"), importance |-> 8],
      [data |-> TextV("str", "6")],
      [data |-> TextV("str", "7")],
      [data |-> TextV("str", "8"), importance |-> 8] }

DefaultImportance == 5

\* the dicts given as knowledge_data and pattern_data, by the text of
\* str(dict); "confidence" is in tenths
DictItems ==
    ("{k1: 1}" :> ("k1" :> 1))
        @@ ("{k1: 2, k2: 1}" :> (("k1" :> 2) @@ ("k2" :> 1)))
        @@ ("{confidence: 9, k1: 1}" :> (("confidence" :> 9) @@ ("k1" :> 1)))

\* a dict as a payload value
DictV(items) ==
    [ty |-> "dict", s |-> CHOOSE n \in DOMAIN DictItems : DictItems[n] = items,
     items |-> items]

\* the orders in which a dict can hold its keys
KeyOrders(memory_data) ==
    LET keys == DOMAIN memory_data
        n == Cardinality(keys)
    IN  {order \in [1..n -> keys] : \A i, j \in 1..n : order[i] = order[j] => i = j}

\* sort_keys=True: the keys in string order
KeyRank ==
    ("data" :> 1) @@ ("domain" :> 2) @@ ("importance" :> 3)
        @@ ("pattern_type" :> 4) @@ ("type" :> 5)

RECURSIVE InsertKey(_, _)
InsertKey(sorted, k) ==
    IF sorted = <<>> THEN <<k>>
    ELSE IF KeyRank[k] < KeyRank[Head(sorted)] THEN <<k>> \o sorted
    ELSE <<Head(sorted)>> \o InsertKey(Tail(sorted), k)

RECURSIVE SortKeys(_)
SortKeys(keys) ==
    IF keys = <<>> THEN <<>>
    ELSE InsertKey(SortKeys(SubSeq(keys, 1, Len(keys) - 1)), keys[Len(keys)])

\* the text written for the keys in the given order: every key followed by
\* its value, a value json cannot encode as its str()
RECURSIVE DumpsInOrder(_, _)
DumpsInOrder(memory_data, keys) ==
    IF keys = <<>> THEN <<>>
    ELSE <<Head(keys),
           IF Head(keys) = "data" THEN memory_data.data.s ELSE memory_data[Head(keys)]>>
         \o DumpsInOrder(memory_data, Tail(keys))

\* json.dumps(memory_data, sort_keys=True, default=str) for a dict that
\* holds its keys in the order `keys`
Dumps(memory_data, keys) == DumpsInOrder(memory_data, SortKeys(keys))

\* the keys of a payload in the order the dict holds them
KeysOf(memory_data) ==
    SelectSeq(<<"type", "domain", "pattern_type", "data", "importance">>,
              LAMBDA k : k \in DOMAIN memory_data)

Serialize(memory_data) == Dumps(memory_data, KeysOf(memory_data))

\* hashlib.md5(...).hexdigest()[:8]: a digest of the serialized text in a
\* space of HashSpace values
TextCode ==
    ("5" :> 5) @@ ("6" :> 6) @@ ("7" :> 7) @@ ("8" :> 8)
        @@ ("Alpha" :> 9) @@ ("alpha beta" :> 10) @@ ("beta" :> 11)
        @@ ("{k1: 1}" :> 1) @@ ("{k1: 2, k2: 1}" :> 2) @@ ("{confidence: 9, k1: 1}" :> 6)
        @@ ("knowledge_update" :> 1) @@ ("pattern_learning" :> 3)
        @@ ("d1" :> 1) @@ ("d2" :> 2) @@ ("p1" :> 1)
KeyWeight ==
    ("data" :> 3) @@ ("domain" :> 1) @@ ("pattern_type" :> 1) @@ ("type" :> 5)

\* the contribution of every key and its value to the digest
RECURSIVE TextSum(_)
TextSum(text) ==
    IF Len(text) = 0 THEN 0
    ELSE (IF text[1] = "importance" THEN text[2]
          ELSE TextCode[text[2]] * KeyWeight[text[1]])
         + TextSum(SubSeq(text, 3, Len(text)))

Digest(text) == TextSum(text) % HashSpace

\* MemoryManager._generate_memory_id
GenerateMemoryId(memory_data) == Digest(Serialize(memory_data))

MemAgents == {"default", "agentX"}

NoSearch == [agent_id |-> "", query |-> <<>>, limit |-> 0, error |-> "none",
             results |-> <<>>]

MemInit ==
    /\ memory_store = EmptyMap
    /\ last_store = [agent_id |-> "", memory_id |-> 0, before |-> <<>>,
                     memory_data |-> [data |-> TextV("", "")]]
    /\ mem_log = [a \in MemAgents |-> [payloads |-> {}, stores |-> 0,
                                         updates |-> <<>>, patterns |-> <<>>]]
    /\ mem_ops = [stores |-> 0, retrieves |-> 0, searches |-> 0, updates |-> 0]
    /\ knowledge_base = EmptyMap
    /\ learning_patterns = EmptyMap
    /\ last_search = NoSearch

\* the sort key of _cleanup_memory: (importance, access_count), compared
\* as tuples
KeyGreater(e1, e2) ==
    \/ e1.importance > e2.importance
    \/ e1.importance = e2.importance /\ e1.access_count > e2.access_count

\* sorted(..., reverse=True): stable, entries with equal keys keep their order
RECURSIVE InsertDesc(_, _)
InsertDesc(sorted, e) ==
    IF sorted = <<>> THEN <<e>>
    ELSE IF KeyGreater(e, Head(sorted)) THEN <<e>> \o sorted
    ELSE <<Head(sorted)>> \o InsertDesc(Tail(sorted), e)

RECURSIVE SortedDesc(_)
SortedDesc(entries) ==
    IF entries = <<>> THEN <<>>
    ELSE InsertDesc(SortedDesc(SubSeq(entries, 1, Len(entries) - 1)),
                    entries[Len(entries)])

\* MemoryManager._cleanup_memory on the agent's dict
CleanupMemory_KeepNewest(memories) ==
    IF Len(memories) <= MemoryLimit THEN memories
    ELSE SubSeq(memories, Len(memories) - MemoryLimit + 1, Len(memories))

CleanupMemory_NoLimit(memories) == memories

CleanupMemory(memories) ==
    IF Len(memories) <= MemoryLimit THEN memories
    ELSE SubSeq(SortedDesc(memories), 1, MemoryLimit)

\* dict[key] = entry: replaces the entry in place or adds it at the end
DictPut(memories, entry) ==
    IF \E i \in 1..Len(memories) : memories[i].id = entry.id
    THEN [i \in 1..Len(memories) |->
             IF memories[i].id = entry.id THEN entry ELSE memories[i]]
    ELSE Append(memories, entry)

AgentMemories_Shared(agent_id) ==
    IF "default" \in DOMAIN memory_store THEN memory_store["default"] ELSE <<>>

\* self.memory_store[agent_id], an empty dict when the agent has none yet
AgentMemories(agent_id) ==
    IF agent_id \in DOMAIN memory_store THEN memory_store[agent_id] ELSE <<>>

\* MemoryManager.store_memory, with the _cleanup_memory it ends with: what
\* the call does to the store
StoreMemoryCall(agent_id, memory_data) ==
    /\ LET memory_id == GenerateMemoryId(memory_data)
           memory_entry == [id |-> memory_id, data |-> memory_data, access_count |-> 0,
                            importance |-> IF "importance" \in DOMAIN memory_data
                                           THEN memory_data.importance
                                           ELSE DefaultImportance]
           before == DictPut(AgentMemories(agent_id), memory_entry)
       IN  /\ memory_store' = [a \in DOMAIN memory_store \cup {agent_id} |->
                                  IF a = agent_id THEN CleanupMemory(before)
                                  ELSE memory_store[a]]
           /\ last_store' = [agent_id |-> agent_id, memory_id |-> memory_id,
                             before |-> before, memory_data |-> memory_data]
    /\ UNCHANGED <<last_search, evoVars, funVars, toolVars>>

\* a store_memory call made by a client
StoreMemory(agent_id, memory_data) ==
    /\ mem_ops.stores < MaxStores
    /\ StoreMemoryCall(agent_id, memory_data)
    /\ mem_log' = [mem_log EXCEPT ![agent_id].payloads = @ \cup {memory_data},
                                  ![agent_id].stores = @ + 1]
    /\ mem_ops' = [mem_ops EXCEPT !.stores = @ + 1]
    /\ UNCHANGED <<knowledge_base, learning_patterns>>

\* dict.update(other): key by key, the other's values win
DictUpdate_Replace(dict, other) == other

DictUpdate(dict, other) ==
    [k \in DOMAIN dict \cup DOMAIN other |-> IF k \in DOMAIN other THEN other[k] ELSE dict[k]]

\* MemoryManager.get_knowledge
GetKnowledge(agent_id, knowledge_domain) ==
    IF agent_id \in DOMAIN knowledge_base
          /\ knowledge_domain \in DOMAIN knowledge_base[agent_id]
    THEN knowledge_base[agent_id][knowledge_domain]
    ELSE EmptyMap

\* the memory that update_knowledge stores (lines 84-89)
KnowledgeMemory(knowledge_domain, knowledge_data) ==
    [type |-> "knowledge_update", domain |-> knowledge_domain,
     data |-> DictV(knowledge_data), importance |-> 8]

\* the memory that learn_pattern stores (lines 116-121)
PatternMemory(pattern_type, pattern_data) ==
    [type |-> "pattern_learning", pattern_type |-> pattern_type,
     data |-> DictV(pattern_data), importance |-> 7]

\* MemoryManager.update_knowledge, with the store_memory it ends with
UpdateKnowledge(agent_id, knowledge_domain, knowledge_data) ==
    /\ mem_ops.stores < MaxStores
    /\ mem_ops.updates < MaxUpdates
    /\ knowledge_base' =
          [a \in DOMAIN knowledge_base \cup {agent_id} |->
              IF a # agent_id THEN knowledge_base[a]
              ELSE LET domains == IF a \in DOMAIN knowledge_base
                                  THEN knowledge_base[a] ELSE EmptyMap
                   IN  [d \in DOMAIN domains \cup {knowledge_domain} |->
                           IF d # knowledge_domain THEN domains[d]
                           ELSE DictUpdate(IF d \in DOMAIN domains THEN domains[d]
                                           ELSE EmptyMap, knowledge_data)]]
    /\ StoreMemoryCall(agent_id, KnowledgeMemory(knowledge_domain, knowledge_data))
    /\ mem_log' = [mem_log EXCEPT
          ![agent_id].payloads = @ \cup {KnowledgeMemory(knowledge_domain, knowledge_data)},
          ![agent_id].stores = @ + 1,
          ![agent_id].updates = Append(@, [domain |-> knowledge_domain,
                                           data |-> knowledge_data])]
    /\ mem_ops' = [mem_ops EXCEPT !.stores = @ + 1, !.updates = @ + 1]
    /\ UNCHANGED learning_patterns

\* MemoryManager.learn_pattern, with the store_memory it ends with
LearnPattern(agent_id, pattern_type, pattern_data) ==
    /\ mem_ops.stores < MaxStores
    /\ mem_ops.updates < MaxUpdates
    /\ LET pattern_entry ==
               [data |-> pattern_data,
                confidence |-> IF "confidence" \in DOMAIN pattern_data
                               THEN pattern_data["confidence"] ELSE 5,
                usage_count |-> 0]
       IN  learning_patterns' =
              [a \in DOMAIN learning_patterns \cup {agent_id} |->
                  IF a # agent_id THEN learning_patterns[a]
                  ELSE LET types == IF a \in DOMAIN learning_patterns
                                    THEN learning_patterns[a] ELSE EmptyMap
                       IN  [t \in DOMAIN types \cup {pattern_type} |->
                               IF t # pattern_type THEN types[t]
                               ELSE Append(IF t \in DOMAIN types THEN types[t] ELSE <<>>,
                                           pattern_entry)]]
    /\ StoreMemoryCall(agent_id, PatternMemory(pattern_type, pattern_data))
    /\ mem_log' = [mem_log EXCEPT
          ![agent_id].payloads = @ \cup {PatternMemory(pattern_type, pattern_data)},
          ![agent_id].stores = @ + 1,
          ![agent_id].patterns = Append(@, [pattern_type |-> pattern_type,
                                            data |-> pattern_data])]
    /\ mem_ops' = [mem_ops EXCEPT !.stores = @ + 1, !.updates = @ + 1]
    /\ UNCHANGED knowledge_base

\* MemoryManager.retrieve_memory
RetrieveMemory(agent_id, memory_id) ==
    /\ mem_ops.retrieves < MaxRetrieves
    /\ IF agent_id \in DOMAIN memory_store
          /\ \E i \in 1..Len(memory_store[agent_id]) : memory_store[agent_id][i].id = memory_id
       THEN memory_store' = [memory_store EXCEPT ![agent_id] =
                [i \in 1..Len(@) |->
                    IF @[i].id = memory_id
                    THEN [@[i] EXCEPT !.access_count = @ + 1] ELSE @[i]]]
       ELSE UNCHANGED memory_store
    /\ mem_ops' = [mem_ops EXCEPT !.retrieves = @ + 1]
    /\ UNCHANGED <<knowledge_base, learning_patterns, last_store, last_search,
                   mem_log, evoVars, funVars, toolVars>>

\* what retrieve_memory returns for the store ms: <<data>>, or <<>> for None
RetrievedData(ms, agent_id, memory_id) ==
    IF agent_id \in DOMAIN ms /\ \E i \in 1..Len(ms[agent_id]) : ms[agent_id][i].id = memory_id
    THEN <<ms[agent_id][CHOOSE i \in 1..Len(ms[agent_id]) : ms[agent_id][i].id = memory_id].data>>
    ELSE <<>>

MemoryIds == {GenerateMemoryId(p) : p \in Payloads}

\* the store_memory calls made: every payload for "default", two of them
\* for "agentX"
StoreInputs ==
    {<<"default", p>> : p \in Payloads}
        \cup {<<"agentX", p>> : p \in {q \in Payloads : q.data \in {TextV("str", "5"),
                                                                  TextV("str", "6")}}}

MemNext ==
    \/ \E in \in StoreInputs : StoreMemory(in[1], in[2])
    \/ \E a \in MemAgents : \E id \in MemoryIds : RetrieveMemory(a, id)

\* the characters of the strings that payloads and queries are made of
Chars ==
    ("data" :> <<"d", "a", "t", "a">>)
        @@ ("importance" :> <<"i", "m", "p", "o", "r", "t", "a", "n", "c", "e">>)
        @@ ("5" :> <<"5">>) @@ ("6" :> <<"6">>) @@ ("7" :> <<"7">>) @@ ("8" :> <<"8">>)
        @@ ("Alpha" :> <<"A", "l", "p", "h", "a">>)
        @@ ("alpha beta" :> <<"a", "l", "p", "h", "a", " ", "b", "e", "t", "a">>)
        @@ ("beta" :> <<"b", "e", "t", "a">>)
        @@ ("type" :> <<"t", "y", "p", "e">>)
        @@ ("domain" :> <<"d", "o", "m", "a", "i", "n">>)
        @@ ("pattern_type" :> <<"p", "a", "t", "t", "e", "r", "n", "_", "t", "y", "p", "e">>)
        @@ ("knowledge_update" :> <<"k", "n", "o", "w", "l", "e", "d", "g", "e", "_",
                                    "u", "p", "d", "a", "t", "e">>)
        @@ ("pattern_learning" :> <<"p", "a", "t", "t", "e", "r", "n", "_",
                                    "l", "e", "a", "r", "n", "i", "n", "g">>)
        @@ ("d1" :> <<"d", "1">>) @@ ("d2" :> <<"d", "2">>) @@ ("p1" :> <<"p", "1">>)
        @@ ("k1" :> <<"k", "1">>) @@ ("k2" :> <<"k", "2">>)
        @@ ("confidence" :> <<"c", "o", "n", "f", "i", "d", "e", "n", "c", "e">>)

\* str.lower()
UpperToLower == ("A" :> "a") @@ ("B" :> "b")
Lower(s) == [i \in 1..Len(s) |->
                IF s[i] \in DOMAIN UpperToLower THEN UpperToLower[s[i]] ELSE s[i]]

\* str.split(): the words between runs of whitespace
RECURSIVE WordsAcc(_, _)
WordsAcc(s, cur) ==
    IF s = <<>> THEN (IF cur = <<>> THEN <<>> ELSE <<cur>>)
    ELSE IF Head(s) = " "
         THEN (IF cur = <<>> THEN <<>> ELSE <<cur>>) \o WordsAcc(Tail(s), <<>>)
    ELSE WordsAcc(Tail(s), Append(cur, Head(s)))
Words(s) == WordsAcc(s, <<>>)

\* sub in s
Contains(sub, s) ==
    \E i \in 0..(Len(s) - Len(sub)) : SubSeq(s, i + 1, i + Len(sub)) = sub

\* json.dumps of a float given in tenths
TenthsStr(n) == IntStr(n \div 10) \o <<".">> \o IntStr(n % 10)

DictKeyOrder == <<"confidence", "k1", "k2">>

\* json.dumps(value) for the value of a key; without default= a value that
\* is no str, number, list or dict raises TypeError
Serializable(memory_data) == memory_data.data.ty \in {"str", "dict"}

\* json.dumps of a dict value: its keys in their order, its numbers
RECURSIVE JsonDictItems(_, _)
JsonDictItems(items, keys) ==
    IF keys = <<>> THEN <<>>
    ELSE <<"\"">> \o Chars[Head(keys)] \o <<"\"", ":", " ">>
         \o (IF Head(keys) = "confidence" THEN TenthsStr(items[Head(keys)])
             ELSE IntStr(items[Head(keys)]))
         \o (IF Len(keys) > 1 THEN <<",", " ">> ELSE <<>>)
         \o JsonDictItems(items, Tail(keys))

JsonValue(memory_data, k) ==
    IF k = "importance" THEN TenthsStr(memory_data[k])
    ELSE IF k # "data" THEN <<"\"">> \o Chars[memory_data[k]] \o <<"\"">>
    ELSE IF memory_data[k].ty = "dict"
         THEN <<"{">> \o JsonDictItems(memory_data[k].items,
                            SelectSeq(DictKeyOrder,
                                      LAMBDA x : x \in DOMAIN memory_data[k].items))
              \o <<"}">>
    ELSE <<"\"">> \o Chars[memory_data[k].s] \o <<"\"">>

RECURSIVE JsonItems(_, _)
JsonItems(memory_data, keys) ==
    IF keys = <<>> THEN <<>>
    ELSE <<"\"">> \o Chars[Head(keys)] \o <<"\"", ":", " ">>
         \o JsonValue(memory_data, Head(keys))
         \o (IF Len(keys) > 1 THEN <<",", " ">> ELSE <<>>)
         \o JsonItems(memory_data, Tail(keys))

\* json.dumps(memory_data)
JsonText(memory_data) ==
    <<"{">> \o JsonItems(memory_data, KeysOf(memory_data)) \o <<"}">>

\* MemoryManager._matches_query
MatchesQuery(memory_data, query) ==
    Contains(Lower(query), Lower(JsonText(memory_data)))

\* MemoryManager._calculate_relevance, as a fraction in lowest terms
CalculateRelevance(memory_data, query) ==
    LET query_terms == Words(Lower(query))
        data_string == Lower(JsonText(memory_data))
        matches == Cardinality({i \in 1..Len(query_terms) :
                                   Contains(query_terms[i], data_string)})
    IN  IF Len(query_terms) > 0 THEN Frac(matches, Len(query_terms)) ELSE <<0, 1>>

\* results.sort(key=relevance, reverse=True): stable
RelevanceGreater(r1, r2) ==
    r1.relevance[1] * r2.relevance[2] > r2.relevance[1] * r1.relevance[2]

RECURSIVE InsertByRelevance(_, _)
InsertByRelevance(sorted, r) ==
    IF sorted = <<>> THEN <<r>>
    ELSE IF RelevanceGreater(r, Head(sorted)) THEN <<r>> \o sorted
    ELSE <<Head(sorted)>> \o InsertByRelevance(Tail(sorted), r)

RECURSIVE SortByRelevance(_)
SortByRelevance(results) ==
    IF results = <<>> THEN <<>>
    ELSE InsertByRelevance(SortByRelevance(SubSeq(results, 1, Len(results) - 1)),
                           results[Len(results)])

\* the loop of search_memories over the agent's dict
RECURSIVE MatchingResults(_, _)
MatchingResults(memories, query) ==
    IF memories = <<>> THEN <<>>
    ELSE (IF MatchesQuery(Head(memories).data, query)
          THEN <<[id |-> Head(memories).id, data |-> Head(memories).data,
                  relevance |-> CalculateRelevance(Head(memories).data, query)]>>
          ELSE <<>>)
         \o MatchingResults(Tail(memories), query)

\* MemoryManager.search_memories: the list returned, or the exception that
\* json.dumps raises for an entry it cannot serialize
SearchMemories(agent_id, query, limit) ==
    LET memories == AgentMemories(agent_id)
    IN  IF \E i \in 1..Len(memories) : ~Serializable(memories[i].data)
        THEN [error |-> "TypeError", results |-> <<>>]
        ELSE LET results == SortByRelevance(MatchingResults(memories, query))
             IN  [error |-> "none", results |-> SubSeq(results, 1, Min(limit, Len(results)))]

Search(agent_id, query, limit) ==
    /\ mem_ops.searches < MaxSearches
    /\ LET out == SearchMemories(agent_id, query, limit)
       IN  last_search' = [agent_id |-> agent_id, query |-> query, limit |-> limit,
                           error |-> out.error, results |-> out.results]
    /\ mem_ops' = [mem_ops EXCEPT !.searches = @ + 1]
    /\ UNCHANGED <<memory_store, knowledge_base, learning_patterns, last_store,
                   mem_log, evoVars, funVars, toolVars>>

\* the update_knowledge, learn_pattern and store_memory calls made: for
\* "default" every domain with two dicts, for "agentX" one of each
KnowledgeDomains == {"d1", "d2"}

KnowledgeInputs ==
    {<<"default", d, DictItems[n]>> : d \in KnowledgeDomains,
                                       n \in {"{k1: 1}", "{k1: 2, k2: 1}"}}
        \cup {<<"agentX", "d1", DictItems["{k1: 1}"]>>}

PatternInputs ==
    {<<"default", "p1", DictItems[n]>> : n \in {"{k1: 1}", "{confidence: 9, k1: 1}"}}
        \cup {<<"agentX", "p1", DictItems["{k1: 1}"]>>}

KnowledgeStoreInputs ==
    { <<"default", [data |-> TextV("Decimal", "5"), importance |-> 8]>>,
      <<"default", [data |-> TextV("str", "8"), importance |-> 8]>>,
      <<"agentX", [data |-> TextV("str", "5"), importance |-> 8]>> }

KnowledgeNext ==
    \/ \E in \in KnowledgeInputs : UpdateKnowledge(in[1], in[2], in[3])
    \/ \E in \in PatternInputs : LearnPattern(in[1], in[2], in[3])
    \/ \E in \in KnowledgeStoreInputs : StoreMemory(in[1], in[2])
    \/ \E a \in MemAgents : \E id \in {GenerateMemoryId(in[2]) : in \in KnowledgeStoreInputs} :
          RetrieveMemory(a, id)

\* the payloads stored and the queries asked while searching
SearchPayloads ==
    { [data |-> TextV("str", "Alpha")],
      [data |-> TextV("str", "alpha beta")],
      [data |-> TextV("str", "beta"), importance |-> 8],
      [data |-> TextV("Decimal", "5"), importance |-> 8] }

Queries ==
    { Chars["alpha beta"], Chars["Alpha"], Chars["beta"],
      <<"b", "e", "t", "a", " ", "a", "l", "p", "h", "a">>,
      <<"B", "e", "t", "a", " ", " ", "x">>,
      <<"d", "a", "t", "a">>, <<>>, <<" ">> }

Limits == {1, 10}

\* the store_memory calls made before a search: every payload for
\* "default", one for "agentX"
SearchStoreInputs ==
    {<<"default", p>> : p \in SearchPayloads}
        \cup {<<"agentX", [data |-> TextV("str", "Alpha")]>>}

SearchNext ==
    \/ \E in \in SearchStoreInputs : StoreMemory(in[1], in[2])
    \/ \E a \in MemAgents : \E q \in Queries : \E limit \in Limits : Search(a, q, limit)

Init == EvoInit /\ FunIdle /\ ToolInit /\ MemInit

Next ==
    \/ \E t \in Tasks : StartEvolution(t)
    \/ \E t \in Tasks : ReadState(t)
    \/ \E t \in Tasks : AnalyzeReturns(t)
    \/ \E t \in Tasks : ResearchReturns(t)
    \/ \E t \in Tasks : GenerateReturns(t)
    \/ \E t \in Tasks : TestReturns(t)
    \/ \E t \in Tasks : StageRaises(t)

\* execute_task calls interleaved with the evolutions that one background
\* task at a time performs
TaskNext ==
    \/ \E t \in {1} :
          \/ StartEvolution(t) \/ ReadState(t) \/ AnalyzeReturns(t) \/ ResearchReturns(t)
          \/ GenerateReturns(t) \/ TestReturns(t) \/ StageRaises(t)
    \/ \E c \in ExecCalls : \E a \in TaskAgents : \E ty \in TaskTypes : ExecuteTask(c, a, ty)
    \/ \E c \in ExecCalls : TaskReturns(c)

Spec == Init /\ [][Next]_vars

SpecTools == Init /\ [][ToolNext]_vars

SpecMemory == Init /\ [][MemNext]_vars

SpecRegistry == Init /\ [][RegistryNext]_vars

SpecSearch == Init /\ [][SearchNext]_vars

SpecTasks == Init /\ [][TaskNext]_vars

SpecKnowledge == Init /\ [][KnowledgeNext]_vars

(***************************************************************************)
(* Pure-function specifications                                            *)
(***************************************************************************)
VersionChars == {"0", "1", "9", ".", "-", "x"}

RECURSIVE StringsUpTo(_, _)
StringsUpTo(chars, n) ==
    IF n = 0 THEN {<<>>}
    ELSE LET shorter == StringsUpTo(chars, n - 1)
         IN  shorter \cup {Append(s, c) : s \in shorter, c \in chars}

\* _increment_version applied to a version string, then to its own result
VerInit ==
    /\ EvoInit /\ ToolInit /\ MemInit
    /\ fin \in StringsUpTo(VersionChars, MaxVersionLen)
    /\ fout = <<>>
    /\ fargs = 0

IncrementCall ==
    /\ fargs < MaxIncrements
    /\ LET current_version == IF fargs = 0 THEN fin ELSE fout
       IN  /\ fin' = current_version
           /\ fout' = IncrementVersion(current_version)
    /\ fargs' = fargs + 1
    /\ UNCHANGED <<evoVars, toolVars, memVars>>

VerNext == IncrementCall

SpecVersion == VerInit /\ [][VerNext]_vars

\* _calculate_new_metrics applied to a metrics map, then to its own result
MetricInputs == {0 - 500, 0, 700, 850, 900, 1000, 1500}
MaxMetricCalls == 2

MetInit ==
    /\ EvoInit /\ ToolInit /\ MemInit
    /\ fin \in [{"accuracy", "efficiency"} -> MetricInputs]
    /\ fout = fin
    /\ fargs = [calls |-> 0, success |-> FALSE, factor |-> 100]

MetricsCall ==
    /\ fargs.calls < MaxMetricCalls
    /\ \E success \in BOOLEAN :
       \E factor \in (IF success THEN ImprovementFactors ELSE DegradationFactors) :
          /\ fin' = fout
          /\ fout' = CalculateNewMetrics(fout, success, factor)
          /\ fargs' = [calls |-> fargs.calls + 1, success |-> success, factor |-> factor]
    /\ UNCHANGED <<evoVars, toolVars, memVars>>

MetNext == MetricsCall

SpecMetrics == MetInit /\ [][MetNext]_vars

\* Tool.execute up to the call of the tool's function, for every tool
\* definition and every keyword-argument dict over these values
SuppliedValues ==
    {StrV("summary"), StrV("bogus"), StrV("2"), IntV(2), IntV(5), BoolV(TRUE),
     ListV(2), NoneV}

DeclaredNames(def) == {def.parameters[i].name : i \in 1..Len(def.parameters)}

\* the kwargs dicts: any of the declared names and one undeclared name,
\* each with a supplied value
KwargsOf(def) ==
    UNION {[S -> SuppliedValues] : S \in SUBSET (DeclaredNames(def) \cup {"extra"})}

ValInit ==
    /\ EvoInit /\ ToolInit /\ MemInit
    /\ fin \in UNION {{[tool |-> i, kwargs |-> k] : k \in KwargsOf(ToolDefs[i])} :
                        i \in DOMAIN ToolDefs}
    /\ fout = None
    /\ fargs = 0

\* Tool.execute lines 32-38: the parameters are validated; fout.error is the
\* exception _validate_parameters raised, or "none" when the tool's function
\* is called with fout.params
ValidateCall ==
    /\ fargs = 0
    /\ fout' = ValidateParameters(NewTool(ToolDefs[fin.tool]).parameters, fin.kwargs)
    /\ fargs' = 1
    /\ UNCHANGED <<fin, evoVars, toolVars, memVars>>

ValNext == ValidateCall

SpecValidate == ValInit /\ [][ValNext]_vars

(***************************************************************************)
(* Claims                                                                  *)
(***************************************************************************)
VersionOf(n) == <<"1", ".", "0", ".">> \o IntStr(n)

\* C1: every completed evolution of an agent adds one history entry and one
\* version increment to the stored state, also when two evolutions of the
\* same agent overlap: no completed evolution's result is lost.
C1_NoLostUpdate ==
    \A a \in AgentIds :
        /\ Len(agent_states[a].evolution_history) = completed
        /\ agent_states[a].version = VersionOf(completed)

\* C2: a step in which a pipeline stage raises leaves the stored AgentState
\* of every agent exactly as it was (version, history, metrics,
\* capabilities).
C2_FaultLeavesStoreUnchanged ==
    [][\A t \in Tasks :
          (pc[t] \in {"analyze", "research", "generate", "test"} /\ pc'[t] = "failed")
              => agent_states' = agent_states]_vars

C2_Witness ==
    \E t \in Tasks : pc[t] = "failed" /\ completed >= 1

\* C3: the state returned by a completed Evolve has the input state's
\* history as a strict prefix, followed by exactly one new event.
C3_HistoryAppendOne ==
    \A t \in Tasks :
        pc[t] = "done" =>
            LET old == agent[t].evolution_history
                new == evolved_agent[t].evolution_history
            IN  /\ Len(new) = Len(old) + 1
                /\ SubSeq(new, 1, Len(old)) = old

C3_Witness ==
    \E t \in Tasks :
        /\ pc[t] = "done"
        /\ Len(agent[t].evolution_history) >= 1
        /\ ~evolved_agent[t].evolution_history[Len(evolved_agent[t].evolution_history)].success

\* the claim's well-formed version: the last component is a non-negative
\* decimal integer
LastComponent(v) == Split(v, ".")[Len(Split(v, "."))]
WellFormedVersion(v) == AllDigits(LastComponent(v))

\* C4: for a version whose last component is a non-negative integer the
\* result has the same number of components, the same components but the
\* last, and a last component that is the decimal integer one greater.
C4_VersionIncrement ==
    (fargs >= 1 /\ WellFormedVersion(fin)) =>
        LET old == Split(fin, ".")
            new == Split(fout, ".")
        IN  /\ Len(new) = Len(old)
            /\ \A i \in 1..(Len(old) - 1) : new[i] = old[i]
            /\ AllDigits(new[Len(new)])
            /\ ParseInt(new[Len(new)]) = ParseInt(old[Len(old)]) + 1
            /\ ParseInt(new[Len(new)]) > ParseInt(old[Len(old)])

C4_Witness ==
    /\ fargs = 2
    /\ fin = <<"1", ".", "1", "0">>
    /\ fout = <<"1", ".", "1", "1">>

Granted(a, n) ==
    a \in DOMAIN agent_tools /\ \E i \in 1..Len(agent_tools[a]) : agent_tools[a][i] = n

C9_UsageCountsPassedAttempts ==
    \A obj \in DOMAIN tool_objs : tool_objs[obj].usage_count = tool_log[obj].passed

\* C10: after n >= 1 executions of a tool that never overlapped and all had
\* valid parameters, k of which returned, success_rate = k / n.
C10_SuccessRateIsAverage ==
    \A obj \in DOMAIN tool_objs :
        LET log == tool_log[obj]
            n == log.returned + log.raised
        IN  (log.running = 0 /\ ~log.overlapped /\ log.rejected = 0 /\ n >= 1)
                => tool_objs[obj].success_rate[1] * n
                       = log.returned * tool_objs[obj].success_rate[2]

C10_Witness ==
    \E obj \in DOMAIN tool_objs :
        /\ tool_log[obj] = [passed |-> 3, rejected |-> 0, returned |-> 1, raised |-> 2,
                            running |-> 0, overlapped |-> FALSE]
        /\ tool_objs[obj].success_rate = <<1, 3>>

\* the number of entries held for an agent
EntryCount(a) == IF a \in DOMAIN memory_store THEN Len(memory_store[a]) ELSE 0

Evicting == last_store.agent_id # "" /\ Len(last_store.before) > MemoryLimit
KeptIds == {memory_store[last_store.agent_id][k].id :
               k \in 1..Len(memory_store[last_store.agent_id])}
SameKey(e1, e2) == ~KeyGreater(e1, e2) /\ ~KeyGreater(e2, e1)

RetainedDominateEvicted ==
    \A i, j \in 1..Len(last_store.before) :
        LET kept == last_store.before[i]
            gone == last_store.before[j]
        IN  (kept.id \in KeptIds /\ gone.id \notin KeptIds) => ~KeyGreater(gone, kept)

\* the sequences that hold the same entries in another order
Reorderings(entries) ==
    LET n == Len(entries)
        perms == {f \in [1..n -> 1..n] : \A i, j \in 1..n : f[i] = f[j] => i = j}
    IN  {[i \in 1..n |-> entries[f[i]]] : f \in perms}

\* C8 (as claimed): after an eviction every retained entry's (importance,
\* access_count) pair is >= every evicted entry's pair, and the set of
\* entries kept is the same for every order in which the entries could have
\* been stored.
C8_KeptIndependentOfOrder ==
    Evicting =>
        /\ RetainedDominateEvicted
        /\ \A other \in Reorderings(last_store.before) :
              {CleanupMemory(other)[k].id : k \in 1..Len(CleanupMemory(other))} = KeptIds

\* C8 (amended): after an eviction every retained entry's pair is >= every
\* evicted entry's pair; between a retained and an evicted entry of equal
\* pairs, the retained one comes first in the agent's dict.
C8_EvictionByPriority ==
    Evicting =>
        /\ RetainedDominateEvicted
        /\ \A i, j \in 1..Len(last_store.before) :
              LET kept == last_store.before[i]
                  gone == last_store.before[j]
              IN  (kept.id \in KeptIds /\ gone.id \notin KeptIds /\ SameKey(kept, gone))
                      => i < j

C8_Witness ==
    /\ Evicting
    /\ \E i \in 1..Len(last_store.before) :
          /\ last_store.before[i].id \notin KeptIds
          /\ last_store.before[i].id # last_store.memory_id
          /\ last_store.before[i].access_count > 0

\* C11: once every Execute call on a tool has completed, whether or not the
\* calls overlapped, usage_count equals the number of calls and success_rate
\* equals (calls that succeeded) / (calls), as if they had run one by one.
C11_OverlapAsSequential ==
    \A obj \in DOMAIN tool_objs :
        LET log == tool_log[obj]
            n == log.returned + log.raised
        IN  (log.running = 0 /\ log.rejected = 0 /\ n >= 1)
                => /\ tool_objs[obj].usage_count = n
                   /\ tool_objs[obj].success_rate[1] * n
                          = log.returned * tool_objs[obj].success_rate[2]

\* the last entry of a state's evolution_history
LastEvent(ag) == ag.evolution_history[Len(ag.evolution_history)]

\* C12: an Evolve whose test stage reported success = false completes and
\* returns a state with the version incremented, every metric <= its old
\* value, and a last history entry with success = false, performance_before
\* = the old metrics and performance_after = the new metrics.
C12_FailedTestStillEvolves ==
    \A t \in Tasks :
        (pc[t] = "done" /\ ~LastEvent(evolved_agent[t]).success) =>
            LET old == agent[t]
                new == evolved_agent[t]
                oldv == Split(old.version, ".")
                newv == Split(new.version, ".")
            IN  /\ Len(newv) = Len(oldv)
                /\ SubSeq(newv, 1, Len(newv) - 1) = SubSeq(oldv, 1, Len(oldv) - 1)
                /\ ParseInt(newv[Len(newv)]) = ParseInt(oldv[Len(oldv)]) + 1
                /\ DOMAIN new.performance_metrics = DOMAIN old.performance_metrics
                /\ \A m \in DOMAIN old.performance_metrics :
                      new.performance_metrics[m] <= old.performance_metrics[m]
                /\ LastEvent(new).performance_before = old.performance_metrics
                /\ LastEvent(new).performance_after = new.performance_metrics

C12_Witness ==
    \E t \in Tasks :
        /\ pc[t] = "done"
        /\ ~LastEvent(evolved_agent[t]).success
        /\ evolved_agent[t].version = VersionOf(2)
        /\ evolved_agent[t].performance_metrics["accuracy"]
               < agent[t].performance_metrics["accuracy"]

\* the position of the first occurrence of x in s
FirstIndex(x, s) == CHOOSE i \in 1..Len(s) : s[i] = x /\ \A j \in 1..(i - 1) : s[j] # x

C14_SingleFactorPerUpdate ==
    fargs.calls >= 1 =>
        /\ DOMAIN fout = DOMAIN fin
        /\ IF fargs.success
           THEN \E f \in 105..115 :
                   \A m \in DOMAIN fin : fout[m] = Min(Scale, (fin[m] * f) \div 100)
           ELSE \E f \in 95..98 :
                   \A m \in DOMAIN fin : fout[m] = Max(0, (fin[m] * f) \div 100)
        /\ (fin = [accuracy |-> 900, efficiency |-> 700] /\ fargs.success
               /\ fargs.factor = 110)
           => fout = [accuracy |-> 990, efficiency |-> 770]

C14_Witness ==
    /\ fargs.calls = 1
    /\ fargs.success
    /\ fargs.factor = 110
    /\ fin = [accuracy |-> 900, efficiency |-> 700]
    /\ fout = [accuracy |-> 990, efficiency |-> 770]

\* the number a supplied value stands for, if any
IsNumeric(v) ==
    v.ty \in {"int", "bool", "float"} \/ (v.ty = "str" /\ v.s \in DOMAIN NumericStrings)
NumberOf(v) == IF v.ty = "str" THEN NumericStrings[v.s] ELSE v.n

DeclaredType(info) == IF "type" \in DOMAIN info THEN info.type ELSE "str"

\* the supplied value meets the declared min, max and enum of the parameter
MeetsConstraints(info, v) ==
    /\ "min" \in DOMAIN info => (IsNumeric(v) /\ NumberOf(v) >= info.min)
    /\ "max" \in DOMAIN info => (IsNumeric(v) /\ NumberOf(v) <= info.max)
    /\ "enum" \in DOMAIN info => v \in info.enum

\* every required parameter is supplied and every supplied declared
\* parameter meets its constraints
Conforms(parameters, kwargs) ==
    \A i \in 1..Len(parameters) :
        LET name == parameters[i].name
            info == parameters[i].info
        IN  /\ ("required" \in DOMAIN info /\ info.required) => name \in DOMAIN kwargs
            /\ name \in DOMAIN kwargs => MeetsConstraints(info, kwargs[name])

\* C15: Execute calls the tool's function only if every declared required
\* parameter is supplied and every supplied declared parameter meets its
\* min, max and enum; otherwise it fails with a validation error
\* (ValueError) and the function is not called.
C15_InvalidParametersRejected ==
    fargs = 1 =>
        LET parameters == ToolDefs[fin.tool].parameters
        IN  /\ fout.error = "none" => Conforms(parameters, fin.kwargs)
            /\ ~Conforms(parameters, fin.kwargs) => fout.error = "ValueError"

\* the value is of the type or a conversion to the type exists for it
Coercible(type, v) ==
    \/ IsInstance(v, type)
    \/ type \in {"str", "bool"}
    \/ type \in {"int", "float"} /\ IsNumeric(v)
    \/ type = "list" /\ v.ty = "str"

\* C16: when validation succeeds the function receives exactly the
\* declared names, each supplied value of its declared type (after
\* coercion if needed) and each unsupplied optional parameter at its
\* declared default; a supplied value that is not of the declared type and
\* cannot be coerced is rejected with a validation error.
C16_ValidatedParametersTyped ==
    fargs = 1 =>
        LET def == ToolDefs[fin.tool]
        IN  \A i \in 1..Len(def.parameters) :
                LET name == def.parameters[i].name
                    info == def.parameters[i].info
                IN  /\ fout.error = "none" =>
                          /\ DOMAIN fout.params = DeclaredNames(def)
                          /\ name \in DOMAIN fin.kwargs
                                => IsInstance(fout.params[name], DeclaredType(info))
                          /\ name \notin DOMAIN fin.kwargs
                                => fout.params[name] =
                                      (IF "default" \in DOMAIN info THEN info.default ELSE NoneV)
                    /\ (name \in DOMAIN fin.kwargs
                           /\ ~Coercible(DeclaredType(info), fin.kwargs[name]))
                          => fout.error = "ValueError"

\* C17: an Execute that fails before the tool's function is called reports
\* its cause by a distinct error kind and response: no grant gives a
\* permission error (403), bad or missing parameters give a validation
\* error (400), and a name that is not registered gives a not-found error
\* that is neither of the two.
C17_DistinctErrorKinds ==
    [][(result' # result /\ calls' = calls) =>
          LET registered == result'.tool_name \in DOMAIN tools
              granted == Granted(result'.agent_id, result'.tool_name)
          IN  /\ ~registered =>
                    /\ result'.outcome \notin {"ok", "PermissionError", "ValueError"}
                    /\ HttpStatus(result'.outcome) \notin {200, 403, 400}
              /\ (registered /\ ~granted) =>
                    /\ result'.outcome = "PermissionError"
                    /\ HttpStatus(result'.outcome) = 403
              /\ (registered /\ granted) =>
                    /\ result'.outcome = "ValueError"
                    /\ HttpStatus(result'.outcome) = 400]_vars

Categories == {ToolDefs[i].category : i \in DOMAIN ToolDefs}

\* C18: after any sequence of Register (also of an already registered
\* name, with the same or another category) and Unregister, for every
\* category c get_tools_by_category(c) returns exactly the registered tools
\* whose category is c, each once.
C18_CategoryIndexExact ==
    \A c \in Categories :
        LET listed == GetToolsByCategory(c)
        IN  /\ \A i, j \in 1..Len(listed) : listed[i] = listed[j] => i = j
            /\ {listed[i] : i \in 1..Len(listed)}
                  = {tools[n] : n \in {x \in DOMAIN tools : tool_objs[tools[x]].category = c}}

\* the entries an agent holds in the store ms
Entries(ms, a) == IF a \in DOMAIN ms THEN ms[a] ELSE <<>>

\* C19: storing the same payload twice in a row for the same agent returns
\* the same memory id both times and leaves exactly one entry for it, the
\* entry count being what it was after the first store and the entry's
\* importance that of the last write; the id depends on the payload only,
\* not on the agent nor on the order of the payload's keys.
C19_SamePayloadOneEntry ==
    [][(/\ mem_ops'.stores = mem_ops.stores + 1
        /\ last_store'.agent_id = last_store.agent_id
        /\ last_store'.memory_data = last_store.memory_data) =>
          LET a == last_store'.agent_id
              id == last_store'.memory_id
              memory_data == last_store'.memory_data
              after == Entries(memory_store', a)
              held == {i \in 1..Len(after) : after[i].id = id}
          IN  /\ id = last_store.memory_id
              /\ Cardinality(held) = 1
              /\ Len(after) = Len(Entries(memory_store, a))
              /\ \A i \in held :
                    after[i].importance = (IF "importance" \in DOMAIN memory_data
                                           THEN memory_data.importance
                                           ELSE DefaultImportance)
              /\ \A keys \in KeyOrders(memory_data) : Digest(Dumps(memory_data, keys)) = id
              /\ \A b \in MemAgents :
                    \A i \in 1..Len(Entries(memory_store', b)) :
                        Entries(memory_store', b)[i].data = memory_data
                            => Entries(memory_store', b)[i].id = id]_vars

\* C20: while an entry with a given id stays in an agent's store its
\* access_count never decreases: it grows by exactly 1 on a Retrieve and no
\* other operation (a Store of any payload, the same one included) changes
\* it; an entry leaves the store only through capacity-driven eviction.
C20_AccessCountMonotonic ==
    [][\A a \in MemAgents :
          \A i \in 1..Len(Entries(memory_store, a)) :
              LET old == Entries(memory_store, a)[i]
                  after == Entries(memory_store', a)
                  kept == {j \in 1..Len(after) : after[j].id = old.id}
              IN  /\ \A j \in kept :
                        /\ after[j].access_count >= old.access_count
                        /\ after[j].access_count # old.access_count
                              => /\ mem_ops'.retrieves = mem_ops.retrieves + 1
                                 /\ after[j].access_count = old.access_count + 1
                  /\ kept = {} =>
                        /\ mem_ops'.stores = mem_ops.stores + 1
                        /\ last_store'.agent_id = a
                        /\ Len(last_store'.before) > MemoryLimit]_vars

\* the number of query terms found in the serialized payload, whatever the case
TermsFound(memory_data, query) ==
    Cardinality({i \in 1..Len(Words(Lower(query))) :
                    Contains(Words(Lower(query))[i], Lower(JsonText(memory_data)))})

\* C21: a Search over entries that json can serialize returns, up to the
\* limit, each entry of the agent whose payload contains at least one query
\* term, with relevance (terms found) / (terms); "alpha beta" over one entry
\* that contains "alpha" only returns that entry with relevance 0.5.
C21_SearchReturnsTermMatches ==
    [][mem_ops'.searches = mem_ops.searches + 1 =>
          LET memories == Entries(memory_store, last_search'.agent_id)
              query == last_search'.query
              results == last_search'.results
              hits == {i \in 1..Len(memories) : TermsFound(memories[i].data, query) >= 1}
          IN  (\A i \in 1..Len(memories) : Serializable(memories[i].data)) =>
                /\ last_search'.error = "none"
                /\ Cardinality(hits) <= last_search'.limit =>
                      \A i \in hits :
                          \E j \in 1..Len(results) :
                              /\ results[j].id = memories[i].id
                              /\ results[j].data = memories[i].data
                              /\ results[j].relevance =
                                    Frac(TermsFound(memories[i].data, query),
                                         Len(Words(Lower(query))))
                /\ (query = Chars["alpha beta"] /\ Len(memories) = 1
                       /\ memories[1].data = [data |-> TextV("str", "Alpha")])
                   => /\ Len(results) = 1
                      /\ results[1].relevance = <<1, 2>>]_vars

\* the agent's store holds an entry with this payload, and a search for
\* the given text returns it when json can serialize the agent's entries
Recoverable(a, memory_data, text) ==
    LET memories == Entries(memory_store, a)
        found == SearchMemories(a, text, Len(memories))
    IN  /\ \E i \in 1..Len(memories) : memories[i].data = memory_data
        /\ (\A i \in 1..Len(memories) : Serializable(memories[i].data))
              => \E j \in 1..Len(found.results) : found.results[j].data = memory_data

\* C22: in every reachable state, every update_knowledge and learn_pattern
\* call made so far for an agent still has its provenance entry (type,
\* domain or pattern type, data) in that agent's store, where Search
\* returns it.
C22_ProvenanceKept ==
    \A a \in MemAgents :
        /\ \A i \in 1..Len(mem_log[a].updates) :
              Recoverable(a, KnowledgeMemory(mem_log[a].updates[i].domain,
                                             mem_log[a].updates[i].data),
                          Chars["knowledge_update"])
        /\ \A i \in 1..Len(mem_log[a].patterns) :
              Recoverable(a, PatternMemory(mem_log[a].patterns[i].pattern_type,
                                           mem_log[a].patterns[i].data),
                          Chars["pattern_learning"])

\* what the memory manager holds for one agent in the given state
HeldFor(ms, kb, lp, a) ==
    <<Entries(ms, a),
      IF a \in DOMAIN kb THEN kb[a] ELSE EmptyMap,
      IF a \in DOMAIN lp THEN lp[a] ELSE EmptyMap>>

\* no step changes what is held for two agents, a step that stores changes
\* only the storing agent, and the limit is applied to that agent's count
OnlyOwnAgentChanges ==
    [][\A a \in MemAgents :
          HeldFor(memory_store', knowledge_base', learning_patterns', a)
                # HeldFor(memory_store, knowledge_base, learning_patterns, a)
          => /\ \A b \in MemAgents \ {a} :
                  HeldFor(memory_store', knowledge_base', learning_patterns', b)
                      = HeldFor(memory_store, knowledge_base, learning_patterns, b)
             /\ mem_ops'.stores # mem_ops.stores =>
                  /\ last_store'.agent_id = a
                  /\ Len(Entries(memory_store', a))
                        = Min(MemoryLimit, Len(last_store'.before))
                  /\ Len(last_store'.before) \in
                        {Len(Entries(memory_store, a)), Len(Entries(memory_store, a)) + 1}]_vars

C24_ExecuteTaskNeverWrites ==
    [][/\ (exec_calls' # exec_calls \/ tasks_started' # tasks_started
              \/ execution_history' # execution_history \/ response' # response)
          => UNCHANGED <<agent_states, pc, agent, modifications, evolved_agent,
                         wrote, started, completed>>
       /\ \A c \in ExecCalls :
             /\ (exec_calls[c].pc = "idle" /\ exec_calls'[c].pc = "running")
                   => exec_calls'[c].agent = agent_states[exec_calls'[c].agent.agent_id]
             /\ (exec_calls[c].pc = "running" /\ exec_calls'[c].pc = "running")
                   => exec_calls'[c] = exec_calls[c]
             /\ (exec_calls[c].pc = "running" /\ exec_calls'[c].pc = "idle")
                   => /\ response'.status = 200
                      /\ response'.result =
                            ExecutionResult(exec_calls[c].agent, exec_calls[c].task_type)
                      /\ response'.result.task_type = "report_generation"
                            => response'.result.agent_version = exec_calls[c].agent.version]_vars

C24_Witness ==
    /\ response.status = 200
    /\ response.result.task_type = "report_generation"
    /\ response.result.agent_version = VersionOf(0)
    /\ agent_states["default"].version = VersionOf(2)
    /\ Len(agent_states["default"].evolution_history) = 2
    /\ Len(execution_history["default"]) = 1

\* C25: a Retrieve made right after Store(agentId, payload) returned an id,
\* for that agent and id, returns that payload, for every payload and
\* importance, also when the agent's store was at its limit before.
C25_StoreThenRetrieve ==
    [][mem_ops'.stores = mem_ops.stores + 1 =>
          RetrievedData(memory_store', last_store'.agent_id, last_store'.memory_id)
              = <<last_store'.memory_data>>]_vars

\* C26: after any sequence of Register, Unregister, Grant and Revoke every
\* name in an agent's grant list is a registered tool and is listed once;
\* so an Execute that passes the permission check finds its tool, and the
\* agent's stats report total_tools = the number of tools in tool_usage.
C26_GrantsAreRegisteredOnce ==
    /\ \A a \in DOMAIN agent_tools :
          /\ \A i \in 1..Len(agent_tools[a]) : agent_tools[a][i] \in DOMAIN tools
          /\ \A i, j \in 1..Len(agent_tools[a]) :
                agent_tools[a][i] = agent_tools[a][j] => i = j
    /\ \A a \in ToolAgents : \A n \in ToolNames : HasAccess(a, n) => n \in DOMAIN tools
    /\ \A a \in ToolAgents :
          GetAgentToolStats(a).total_tools = Cardinality(GetAgentToolStats(a).tool_usage)

C26_Witness ==
    /\ "analyze_data" \notin DOMAIN tools
    /\ "set_level" \in DOMAIN tools
    /\ "data_analysis" \in DOMAIN tool_categories
    /\ "default" \in DOMAIN agent_tools /\ agent_tools["default"] = <<"set_level">>
    /\ "agentX" \in DOMAIN agent_tools /\ agent_tools["agentX"] = <<>>

\* C27: Unregister(name) revokes the name from every agent, and a grant for
\* a name appears only through a Grant to that agent or a Register that names
\* that agent: after Unregister and a Register without grantToAgent no agent
\* passes the permission check for the name, an earlier holder included,
\* until it is granted again.
C27_UnregisterRevokesAll ==
    [][/\ \A n \in ToolNames :
            (n \in DOMAIN tools /\ n \notin DOMAIN tools')
                => \A a \in ToolAgents : ~HasAccess(a, n)'
       /\ \A n \in ToolNames : \A a \in ToolAgents :
            (~HasAccess(a, n) /\ HasAccess(a, n)')
                => \/ AssignToolToAgent(n, a)
                   \/ \E obj \in DOMAIN tool_objs :
                         tool_objs[obj].name = n /\ RegisterTool(obj, a)]_vars

C27_Witness ==
    /\ tools = ("analyze_data" :> 1) @@ ("set_level" :> 2)
    /\ DOMAIN agent_tools = ToolAgents
    /\ agent_tools["default"] = <<"set_level">>
    /\ agent_tools["agentX"] = <<>>
    /\ Len(tool_categories["data_analysis"]) = 1
    /\ grant_error = "none"

\* C29: a Grant for a name that is not a registered tool raises an error
\* and leaves every agent's grants and the tool table unchanged; a Revoke
\* for a pair that is not granted raises nothing and changes nothing.
C29_FailedGrantAndRevokeChangeNothing ==
    [][/\ \A n \in ToolNames : \A a \in GrantAgents :
            (n \notin DOMAIN tools /\ AssignToolToAgent(n, a))
                => /\ grant_error' = "ValueError"
                   /\ UNCHANGED <<agent_tools, tools, tool_categories, tool_objs>>
       /\ \A n \in ToolNames : \A a \in GrantAgents :
            (~HasAccess(a, n) /\ RemoveToolFromAgent(n, a))
                => /\ grant_error' = "none"
                   /\ UNCHANGED <<agent_tools, tools, tool_categories, tool_objs>>]_vars

C29_Witness ==
    /\ grant_error = "ValueError"
    /\ "analyze_data" \notin DOMAIN tools
    /\ "data_analysis" \in DOMAIN tool_categories
    /\ "set_level" \in DOMAIN tools
    /\ "default" \in DOMAIN agent_tools /\ agent_tools["default"] = <<"set_level">>
    /\ "agentX" \notin DOMAIN agent_tools

\* C28: when the test stage reported success = false, the state an Evolve
\* returns has the old state's capabilities, memory_size and tool_count; the
\* proposed modifications appear only in the event's change payload.
C28_FailedTestAppliesNothing ==
    \A t \in Tasks :
        (pc[t] = "done" /\ ~LastEvent(evolved_agent[t]).success) =>
            /\ evolved_agent[t].capabilities = agent[t].capabilities
            /\ evolved_agent[t].memory_size = agent[t].memory_size
            /\ evolved_agent[t].tool_count = agent[t].tool_count
            /\ LastEvent(evolved_agent[t]).changes = modifications[t]

\* the updates of a domain that an agent made, as positions in its log
UpdatesOf(a, d) ==
    IF a \in DOMAIN mem_log
    THEN {i \in 1..Len(mem_log[a].updates) : mem_log[a].updates[i].domain = d}
    ELSE {}

\* C30: after any sequence of UpdateKnowledge calls GetKnowledge(agent,
\* domain) holds exactly the keys given in that agent's updates of that
\* domain, each with the value of the most recent update that contained it;
\* for an agent or domain never updated it is the empty map, and updates of
\* another domain or agent do not show in it.
C30_KnowledgeMergesByKey ==
    \A a \in MemAgents \cup {"nobody"} : \A d \in KnowledgeDomains :
        LET ups == UpdatesOf(a, d)
            known == GetKnowledge(a, d)
        IN  /\ ups = {} => known = EmptyMap
            /\ DOMAIN known = UNION {DOMAIN mem_log[a].updates[i].data : i \in ups}
            /\ \A k \in DOMAIN known :
                  LET with == {i \in ups : k \in DOMAIN mem_log[a].updates[i].data}
                      last == CHOOSE i \in with : \A j \in with : j <= i
                  IN  known[k] = mem_log[a].updates[last].data[k]

C30_Witness ==
    /\ GetKnowledge("default", "d1") = ("k1" :> 1) @@ ("k2" :> 1)
    /\ GetKnowledge("default", "d2") = EmptyMap
    /\ GetKnowledge("agentX", "d1") = EmptyMap
    /\ Len(mem_log["default"].updates) = 2

====
